---- MODULE Spec2Model ----
(***************************************************************************)
(* Model of backend/app.py: the Flask emotion-detection server.            *)
(*                                                                         *)
(* The module globals (camera, is_running, lock, emotion_data,             *)
(* current_emotion) are the shared state.  Every /api/video_feed request   *)
(* runs its own generate_frames() generator on its own server thread       *)
(* (app.run(threaded=True)); a generator is a process with a program       *)
(* counter.  /api/start and /api/stop run on further request threads.      *)
(* Only the statements inside "with lock:" exclude one another; every      *)
(* other access to a global is a separate step.                            *)
(***************************************************************************)
EXTENDS Integers, Sequences, FiniteSets, TLC

(* ---------------------------- bounds ----------------------------------- *)
\* chunks the client of one stream takes before it can only disconnect
MaxFrames == 2
\* detection events created after the initial state
MaxEvents == 2

\* the single-stream runs: chunks the client takes, events created
SeqFrames == 750
SeqEvents == 150

(* ------------------------ program constants ---------------------------- *)
\* "Keep only last 100 records"
HistoryCap == 100
\* "Detect emotion every 5 frames"
AnalyzeEvery == 5
\* for i in range(3)
ProbeIndices == 0..2
NoFace == "No face detected"
\* emotions = ["Happy", "Sad", "Angry", "Surprised", "Neutral", "Fear", "Disgust"]
emotions == {"Happy", "Sad", "Angry", "Surprised", "Neutral", "Fear", "Disgust"}
\* the labels of the emotions list the analyzer is exercised with
Labels == {"Happy", "Sad"}
\* the /api/video_feed requests of a run, one generate_frames() generator each
Clients == {"c1", "c2"}
\* the machines of a run: the device indices at which a camera is attached
\* (none, one webcam, two cameras)
DeviceSets == {{}, {0}, {1, 2}}
\* None
None == 0

VARIABLES
    camera,          \* global camera: None or the id of a VideoCapture handle
    is_running,      \* global is_running
    lock,            \* global lock: "free" or the holder
    emotion_data,    \* global emotion_data (the list the name is bound to)
    current_emotion, \* global current_emotion
    handles,         \* every VideoCapture that opened: [index, opened]
    working,         \* environment: device indices with a camera attached
    clock,           \* datetime.now() as a logical clock: events created since Init
    pc,              \* per client: position in generate_frames
    frame_count,     \* per client: local frame_count
    test_camera,     \* per client: the handle its initialize_camera opened
    slice,           \* per client: emotion_data[-100:] evaluated, not yet stored
    cause,           \* per client: why the loop was left
    escaped,         \* per client: an exception propagated out of the generator
    stop_pc,         \* position of the request thread inside stop()
    reply,           \* status of the last completed /api/start or /api/stop
    opens_before,    \* handles opened so far when the start() that answered
                     \* 'started' was entered (0 once another reply follows)
    stats_pc,        \* position of the request thread inside get_stats()
    iterated,        \* the list object of "for record in emotion_data": live
                     \* while the global is still bound to it, else its items
    emotion_counts,  \* local emotion_counts of get_stats (0: key absent)
    total,           \* local total of get_stats
    stats_reply      \* what /api/stats answered

vars == <<camera, is_running, lock, emotion_data, current_emotion, handles,
          working, clock, pc, frame_count, test_camera, slice, cause, escaped,
          stop_pc, reply, opens_before, stats_pc, iterated, emotion_counts,
          total, stats_reply>>

shared == <<camera, is_running, lock, emotion_data, current_emotion, handles,
            working, clock>>
control == <<stop_pc, reply, opens_before>>
reader == <<stats_pc, iterated, emotion_counts, total, stats_reply>>

(* ------------------------------ helpers -------------------------------- *)
Min(S) == CHOOSE x \in S : \A y \in S : x <= y

\* one entry of emotion_data: {'timestamp', 'emotion', ...}
Event(t, e) == [timestamp |-> t, emotion |-> e]

\* lst[:n] in place of lst[-n:]: keeps the oldest entries
FirstN(lst, n) ==
    IF Len(lst) <= n THEN lst ELSE SubSeq(lst, 1, n)

\* lst[-n:]
LastN(lst, n) ==
    IF Len(lst) <= n THEN lst ELSE SubSeq(lst, Len(lst) - n + 1, Len(lst))

\* a history of n events as one capture loop leaves it (timestamps 1..n)
History(n) == [i \in 1..n |-> Event(i, IF i % 2 = 1 THEN "Happy" ELSE "Sad")]

InitHistories == {History(0), History(HistoryCap)}

OpenHandles == {h \in 1..Len(handles) : handles[h].opened}

\* the positions inside "while True:" of generate_frames
LoopPcs == {"check", "read", "analyze", "trim", "store", "yield"}

\* the positions of an iteration that has passed "if not is_running: break"
RunningPcs == LoopPcs \ {"check"}

Release(h) == [handles EXCEPT ![h].opened = FALSE]

\* datetime.now(): later than every timestamp handed out before
Now == HistoryCap + clock + 1

\* the indices i for which cv2.VideoCapture(i) opens and reads a first frame:
\* a camera is attached and no open handle is using it
Available ==
    (working \cap ProbeIndices) \ {handles[h].index : h \in OpenHandles}

(* ------------------------------- Init ---------------------------------- *)
Init ==
    /\ camera = None
    /\ is_running = FALSE
    /\ lock = "free"
    /\ emotion_data \in InitHistories
    /\ current_emotion = NoFace
    /\ handles = <<>>
    /\ working \in DeviceSets
    /\ clock = 0
    /\ pc = [c \in Clients |-> "idle"]
    /\ frame_count = [c \in Clients |-> 0]
    /\ test_camera = [c \in Clients |-> None]
    /\ slice = [c \in Clients |-> <<>>]
    /\ cause = [c \in Clients |-> "none"]
    /\ escaped = [c \in Clients |-> FALSE]
    /\ stop_pc = "idle"
    /\ reply = "none"
    /\ opens_before = 0
    /\ stats_pc = "idle"
    /\ iterated = [live |-> FALSE, items |-> <<>>]
    /\ emotion_counts = [e \in Labels |-> 0]
    /\ total = 0
    /\ stats_reply = "none"

(* --------------------- /api/video_feed: generate_frames ---------------- *)
\* video_feed(): the request arrives; Response starts to iterate a new
\* generate_frames() generator
video_feed(c) ==
    /\ pc[c] = "idle"
    /\ pc' = [pc EXCEPT ![c] = "init"]
    /\ UNCHANGED <<reader, shared, control, frame_count, test_camera, slice, cause,
                   escaped>>

\* if not initialize_camera(): return.  initialize_camera probes range(3),
\* keeps the first index that opens and reads and binds the global camera to
\* the new handle; handles that fail the probe are released at once
initialize_camera(c) ==
    /\ pc[c] = "init"
    /\ IF Available = {}
       THEN /\ pc' = [pc EXCEPT ![c] = "done"]
            /\ cause' = [cause EXCEPT ![c] = "no_camera"]
            /\ UNCHANGED <<reader, handles, camera, test_camera>>
       ELSE /\ handles' = Append(handles,
                   [index |-> Min(Available), opened |-> TRUE])
            /\ camera' = Len(handles) + 1
            /\ test_camera' = [test_camera EXCEPT ![c] = Len(handles) + 1]
            /\ pc' = [pc EXCEPT ![c] = "check"]
            /\ UNCHANGED cause
    /\ UNCHANGED <<reader, is_running, lock, emotion_data, current_emotion, working,
                   clock, frame_count, slice, escaped, control>>

\* check_running without the test: the loop goes on whatever is_running is
check_running_ignores_flag(c) ==
    /\ pc[c] = "check"
    /\ lock = "free"
    /\ pc' = [pc EXCEPT ![c] = "read"]
    /\ UNCHANGED <<reader, shared, control, frame_count, test_camera, slice, cause,
                   escaped>>

\* check_running that waits instead of leaving the loop when the pipeline
\* is not running ("continue" in place of "break")
check_running_waits(c) ==
    /\ pc[c] = "check"
    /\ lock = "free"
    /\ pc' = [pc EXCEPT ![c] = IF is_running THEN "read" ELSE "check"]
    /\ UNCHANGED <<reader, shared, control, frame_count, test_camera, slice, cause,
                   escaped>>

\* with lock: if not is_running: break
check_running(c) ==
    /\ pc[c] = "check"
    /\ lock = "free"
    /\ IF is_running
       THEN /\ pc' = [pc EXCEPT ![c] = "read"]
            /\ UNCHANGED cause
       ELSE /\ pc' = [pc EXCEPT ![c] = "fin"]
            /\ cause' = [cause EXCEPT ![c] = "not_running"]
    /\ UNCHANGED <<reader, shared, control, frame_count, test_camera, slice, escaped>>

\* NextPc with the test made after the increment of frame_count
NextPc_after_increment(c) ==
    IF (frame_count[c] + 1) % AnalyzeEvery = 0 THEN "analyze" ELSE "yield"

\* after a successful read: "if frame_count % 5 == 0" runs the analysis,
\* otherwise the iteration goes on to frame_count += 1, overlays, imencode, yield
NextPc(c) == IF frame_count[c] % AnalyzeEvery = 0 THEN "analyze" ELSE "yield"

\* success, frame = camera.read() on the GLOBAL camera
camera_read(c) ==
    /\ pc[c] = "read"
    /\ IF camera = None
       THEN \* AttributeError, caught by "except Exception"
            /\ pc' = [pc EXCEPT ![c] = "fin"]
            /\ cause' = [cause EXCEPT ![c] = "error"]
            /\ UNCHANGED frame_count
       ELSE \E success \in BOOLEAN :
            /\ success => handles[camera].opened
            /\ IF success
               THEN /\ pc' = [pc EXCEPT ![c] = NextPc(c)]
                    /\ frame_count' =
                         IF NextPc(c) = "yield"
                         THEN [frame_count EXCEPT ![c] = @ + 1]
                         ELSE frame_count
                    /\ UNCHANGED cause
               ELSE /\ pc' = [pc EXCEPT ![c] = "fin"]
                    /\ cause' = [cause EXCEPT ![c] = "read_failed"]
                    /\ UNCHANGED frame_count
    /\ UNCHANGED <<reader, shared, control, test_camera, slice, escaped>>

\* detect_emotion_mock raises: the exception reaches "except Exception"
analyze_raises(c) ==
    /\ pc[c] = "analyze"
    /\ pc' = [pc EXCEPT ![c] = "fin"]
    /\ cause' = [cause EXCEPT ![c] = "error"]
    /\ UNCHANGED <<reader, shared, control, frame_count, test_camera, slice, escaped>>

\* analyze_no_face without the guard 'if emotion != "No face detected"':
\* the cycle is stored like a detection
analyze_no_face_unguarded(c) ==
    /\ pc[c] = "analyze"
    /\ current_emotion' = NoFace
    /\ emotion_data' = Append(emotion_data, Event(Now, NoFace))
    /\ frame_count' = [frame_count EXCEPT ![c] = @ + 1]
    /\ pc' = [pc EXCEPT ![c] = "yield"]
    /\ UNCHANGED <<reader, camera, is_running, lock, handles, working,
                   clock, control, test_camera, slice, cause, escaped>>

\* detect_emotion_mock finds no face: current_emotion = "No face detected"
\* and nothing is stored
analyze_no_face(c) ==
    /\ pc[c] = "analyze"
    /\ current_emotion' = NoFace
    /\ frame_count' = [frame_count EXCEPT ![c] = @ + 1]
    /\ pc' = [pc EXCEPT ![c] = "yield"]
    /\ UNCHANGED <<reader, camera, is_running, lock, emotion_data, handles, working,
                   clock, control, test_camera, slice, cause, escaped>>

\* the analyzer returns (frame, e, confidence) with a face found:
\* current_emotion = emotion and emotion_data.append({...}); at most limit
\* events are created in a run
analyze_detects(c, e, limit) ==
    /\ pc[c] = "analyze"
    /\ clock < limit
    /\ current_emotion' = e
    /\ emotion_data' = Append(emotion_data, Event(Now, e))
    /\ clock' = clock + 1
    /\ pc' = [pc EXCEPT ![c] = "trim"]
    /\ UNCHANGED <<reader, camera, is_running, lock, handles, working, control,
                   frame_count, test_camera, slice, cause, escaped>>

\* detect_emotion_mock finds a face: emotion = random.choice(emotions)
analyze_face(c) == \E e \in Labels : analyze_detects(c, e, MaxEvents)

\* if len(emotion_data) > 100: evaluate emotion_data[-100:]
trim_check(c) ==
    /\ pc[c] = "trim"
    /\ IF Len(emotion_data) > HistoryCap
       THEN /\ slice' = [slice EXCEPT ![c] = LastN(emotion_data, HistoryCap)]
            /\ pc' = [pc EXCEPT ![c] = "store"]
            /\ UNCHANGED frame_count
       ELSE /\ frame_count' = [frame_count EXCEPT ![c] = @ + 1]
            /\ pc' = [pc EXCEPT ![c] = "yield"]
            /\ UNCHANGED slice
    /\ UNCHANGED <<reader, shared, control, test_camera, cause, escaped>>

\* emotion_data = <the slice>: rebind the global; a get_stats call that is
\* iterating the list keeps the object the name was bound to before
trim_store(c) ==
    /\ pc[c] = "store"
    /\ emotion_data' = slice[c]
    /\ slice' = [slice EXCEPT ![c] = <<>>]
    /\ frame_count' = [frame_count EXCEPT ![c] = @ + 1]
    /\ pc' = [pc EXCEPT ![c] = "yield"]
    /\ iterated' = IF stats_pc = "iter" /\ iterated.live
                   THEN [live |-> FALSE, items |-> emotion_data]
                   ELSE iterated
    /\ UNCHANGED <<stats_pc, emotion_counts, total, stats_reply>>
    /\ UNCHANGED <<camera, is_running, lock, current_emotion, handles, working,
                   clock, control, test_camera, cause, escaped>>

\* the client takes the chunk; time.sleep(0.033); next iteration; the client
\* takes at most limit chunks
take_chunk(c, limit) ==
    /\ pc[c] = "yield"
    /\ frame_count[c] < limit
    /\ pc' = [pc EXCEPT ![c] = "check"]
    /\ UNCHANGED <<reader, shared, control, frame_count, test_camera, slice, cause,
                   escaped>>

resume(c) == take_chunk(c, MaxFrames)

\* the client disconnects: the server closes the generator, GeneratorExit is
\* raised at the yield, passes "except Exception" and runs the finally block
disconnect(c) ==
    /\ pc[c] = "yield"
    /\ pc' = [pc EXCEPT ![c] = "fin"]
    /\ cause' = [cause EXCEPT ![c] = "closed"]
    /\ UNCHANGED <<reader, shared, control, frame_count, test_camera, slice, escaped>>

\* finally: if camera:
finally_test(c) ==
    /\ pc[c] = "fin"
    /\ pc' = [pc EXCEPT ![c] = IF camera # None THEN "release" ELSE "done"]
    /\ UNCHANGED <<reader, shared, control, frame_count, test_camera, slice, cause,
                   escaped>>

\* finally: camera.release() on the GLOBAL camera
finally_release(c) ==
    /\ pc[c] = "release"
    /\ IF camera = None
       THEN \* AttributeError leaves the generator
            /\ escaped' = [escaped EXCEPT ![c] = TRUE]
            /\ UNCHANGED handles
       ELSE /\ handles' = Release(camera)
            /\ UNCHANGED escaped
    /\ pc' = [pc EXCEPT ![c] = "done"]
    /\ UNCHANGED <<reader, camera, is_running, lock, emotion_data, current_emotion,
                   working, clock, control, frame_count, test_camera, slice,
                   cause>>

(* ------------------------------ /api/start ----------------------------- *)
start ==
    /\ lock = "free"
    /\ IF ~is_running
       THEN /\ is_running' = TRUE
            /\ reply' = "started"
            /\ opens_before' = Len(handles)
       ELSE /\ reply' = "already_running"
            /\ opens_before' = 0
            /\ UNCHANGED is_running
    /\ UNCHANGED <<reader, camera, lock, emotion_data, current_emotion, handles,
                   working, clock, pc, frame_count, test_camera, slice, cause,
                   escaped, stop_pc>>

(* ------------------------------ /api/stop ------------------------------ *)
\* with lock: is_running = False; if camera: (the lock is held until
\* stop_clear when there is a camera to release)
stop_begin ==
    /\ stop_pc = "idle"
    /\ lock = "free"
    /\ is_running' = FALSE
    /\ IF camera # None
       THEN /\ lock' = "stop"
            /\ stop_pc' = "release"
            /\ UNCHANGED <<reader, reply, opens_before>>
       ELSE \* lock released, return jsonify(status='stopped')
            /\ reply' = "stopped"
            /\ opens_before' = 0
            /\ UNCHANGED <<reader, lock, stop_pc>>
    /\ UNCHANGED <<reader, camera, emotion_data, current_emotion, handles, working,
                   clock, pc, frame_count, test_camera, slice, cause, escaped>>

\* camera.release() on the GLOBAL camera
stop_release ==
    /\ stop_pc = "release"
    /\ handles' = Release(camera)
    /\ stop_pc' = "clear"
    /\ UNCHANGED <<reader, camera, is_running, lock, emotion_data, current_emotion,
                   working, clock, pc, frame_count, test_camera, slice, cause,
                   escaped, reply, opens_before>>

\* camera = None; lock released; return jsonify(status='stopped')
stop_clear ==
    /\ stop_pc = "clear"
    /\ camera' = None
    /\ lock' = "free"
    /\ stop_pc' = "idle"
    /\ reply' = "stopped"
    /\ opens_before' = 0
    /\ UNCHANGED <<reader, is_running, emotion_data, current_emotion, handles, working,
                   clock, pc, frame_count, test_camera, slice, cause, escaped>>

\* stop() returns its response
stop_returns == (stop_begin /\ camera = None) \/ stop_clear

(* --------------------------- /api/stats -------------------------------- *)
\* number of records of lst with record['emotion'] == e
Count(lst, e) == Cardinality({i \in 1..Len(lst) : lst[i].emotion = e})

\* get_stats without the "if not emotion_data" test
stats_test_unguarded ==
    /\ stats_pc = "idle"
    /\ stats_pc' = "loop"
    /\ UNCHANGED <<iterated, emotion_counts, total, stats_reply>>
    /\ UNCHANGED <<shared, control, pc, frame_count, test_camera, slice, cause,
                   escaped>>

\* if not emotion_data: return jsonify({'message': 'No data available'})
stats_test ==
    /\ stats_pc = "idle"
    /\ IF emotion_data = <<>>
       THEN /\ stats_pc' = "done"
            /\ stats_reply' = "no_data"
       ELSE /\ stats_pc' = "loop"
            /\ UNCHANGED stats_reply
    /\ UNCHANGED <<iterated, emotion_counts, total>>
    /\ UNCHANGED <<shared, control, pc, frame_count, test_camera, slice, cause,
                   escaped>>

\* for record in emotion_data: the iterator is made on the list the global
\* is bound to now
stats_iter_begin ==
    /\ stats_pc = "loop"
    /\ stats_pc' = "iter"
    /\ iterated' = [live |-> TRUE, items |-> <<>>]
    /\ UNCHANGED <<emotion_counts, total, stats_reply>>
    /\ UNCHANGED <<shared, control, pc, frame_count, test_camera, slice, cause,
                   escaped>>

\* the iterator is exhausted: the list object only grows by appends, so the
\* records counted are the items it holds at this moment
stats_iter_end ==
    /\ stats_pc = "iter"
    /\ LET lst == IF iterated.live THEN emotion_data ELSE iterated.items
       IN  emotion_counts' = [e \in Labels |-> Count(lst, e)]
    /\ stats_pc' = "len"
    /\ UNCHANGED <<iterated, total, stats_reply>>
    /\ UNCHANGED <<shared, control, pc, frame_count, test_camera, slice, cause,
                   escaped>>

\* total = len(emotion_data); count/total for every key of emotion_counts
\* (ZeroDivisionError when a key exists and total is 0); return jsonify(...)
stats_total ==
    /\ stats_pc = "len"
    /\ total' = Len(emotion_data)
    /\ stats_reply' = IF Len(emotion_data) = 0
                         /\ \E e \in Labels : emotion_counts[e] > 0
                      THEN "zero_division"
                      ELSE "stats"
    /\ stats_pc' = "done"
    /\ UNCHANGED <<iterated, emotion_counts>>
    /\ UNCHANGED <<shared, control, pc, frame_count, test_camera, slice, cause,
                   escaped>>

(* ------------------------------- Spec ---------------------------------- *)
Next ==
    \/ \E c \in Clients : video_feed(c)
    \/ \E c \in Clients : initialize_camera(c)
    \/ \E c \in Clients : check_running(c)
    \/ \E c \in Clients : camera_read(c)
    \/ \E c \in Clients : analyze_raises(c)
    \/ \E c \in Clients : analyze_no_face(c)
    \/ \E c \in Clients : analyze_face(c)
    \/ \E c \in Clients : trim_check(c)
    \/ \E c \in Clients : trim_store(c)
    \/ \E c \in Clients : resume(c)
    \/ \E c \in Clients : disconnect(c)
    \/ \E c \in Clients : finally_test(c)
    \/ \E c \in Clients : finally_release(c)
    \/ start
    \/ stop_begin
    \/ stop_release
    \/ stop_clear

Spec == Init /\ [][Next]_vars

\* the steps the server thread of one stream takes on its own (the request
\* and the disconnect are the client's)
GenStep(c) ==
    \/ initialize_camera(c)
    \/ check_running(c)
    \/ camera_read(c)
    \/ analyze_raises(c)
    \/ analyze_no_face(c)
    \/ analyze_face(c)
    \/ trim_check(c)
    \/ trim_store(c)
    \/ resume(c)
    \/ finally_test(c)
    \/ finally_release(c)

\* threaded=True: every request thread keeps being scheduled, so a stream's
\* generator and a stop() that has taken the lock go on when they can
Fairness ==
    /\ \A c \in Clients : WF_vars(GenStep(c))
    /\ WF_vars(stop_release \/ stop_clear)

\* the runs of Spec on a machine with one webcam that start from a full
\* history, under that scheduling
FairInit == Init /\ working = {0} /\ emotion_data = History(HistoryCap)

FairSpec == FairInit /\ [][Next]_vars /\ Fairness

\* one stream on a fresh server with one webcam, and an analyzer that finds
\* a face with the same label on every call (the outcomes of
\* detect_emotion_mock in which random.choice keeps returning StubLabel)
StubLabel == "Happy"

SeqClient == "c1"

SeqInit == Init /\ working = {0} /\ emotion_data = History(0)

SeqNext ==
    \/ video_feed(SeqClient)
    \/ initialize_camera(SeqClient)
    \/ check_running(SeqClient)
    \/ camera_read(SeqClient)
    \/ analyze_detects(SeqClient, StubLabel, SeqEvents)
    \/ trim_check(SeqClient)
    \/ trim_store(SeqClient)
    \/ take_chunk(SeqClient, SeqFrames)
    \/ disconnect(SeqClient)
    \/ finally_test(SeqClient)
    \/ finally_release(SeqClient)
    \/ start
    \/ stop_begin
    \/ stop_release
    \/ stop_clear

SeqSpec == SeqInit /\ [][SeqNext]_vars

\* one /api/stats request against running capture loops on a server with
\* two webcams
StatsInit == Init /\ working = {1, 2}

StatsNext ==
    \/ start
    \/ \E c \in Clients :
         \/ video_feed(c)
         \/ initialize_camera(c)
         \/ check_running(c)
         \/ camera_read(c)
         \/ analyze_face(c)
         \/ trim_check(c)
         \/ trim_store(c)
         \/ resume(c)
         \/ finally_test(c)
         \/ finally_release(c)
    \/ stats_test
    \/ stats_iter_begin
    \/ stats_iter_end
    \/ stats_total

StatsSpec == StatsInit /\ [][StatsNext]_vars

\* the client of stream c has taken MaxFrames chunks and takes no more: the
\* generator stays suspended at its yield
Suspended(c) == pc[c] = "yield" /\ frame_count[c] >= MaxFrames

(* ------------------------------ claims --------------------------------- *)

\* C1: whenever is_running is false (the pipeline is Idle) no camera handle
\* opened by initialize_camera is open.
C1_IdleImpliesReleased == ~is_running => OpenHandles = {}

\* C2: whenever is_running is true (the pipeline is Running) the global
\* camera is bound to a handle and that handle is open.
C2_RunningImpliesOpen ==
    is_running => (camera # None /\ handles[camera].opened)

\* C3: a start() that follows a start() which answered 'started', with no
\* stop() between, answers 'already_running', and from the entry of the
\* first call to the return of the second exactly one handle was opened.
C3_StartTwiceOpensOnce ==
    [][(start /\ reply = "started")
         => (reply' = "already_running" /\ Len(handles') - opens_before = 1)]_vars

\* C4: the history never holds more than 100 events, in any state of any
\* interleaving, the states between an append and its trim included.
C4_HistoryAtMostCap == Len(emotion_data) <= HistoryCap

\* C5: a capture loop that was left because a frame read failed has, when
\* its generator finishes, set is_running to false, released the handle it
\* opened and let no exception escape.
C5_ReadFailureAutoStops ==
    [][\A c \in Clients :
         (pc[c] # "done" /\ pc'[c] = "done" /\ cause'[c] = "read_failed")
           => /\ ~is_running'
              /\ ~escaped'[c]
              /\ ~handles'[test_camera'[c]].opened]_vars

\* C6: when no candidate device opens and yields a first frame, start()
\* fails: it does not answer 'started' and is_running stays false.
C6_NoDeviceStartFails ==
    [][(start /\ working \cap ProbeIndices = {})
         => (~is_running' /\ reply' # "started")]_vars

\* C7: at the moment stop() returns, no capture loop is still inside an
\* iteration it entered before the stop (every loop that was running has
\* observed the stop signal and left the loop).
C7_StopWaitsForLoops ==
    [][stop_returns => \A c \in Clients : pc'[c] \notin RunningPcs]_vars

\* C8: when a generator whose client disconnected, or whose loop ended on
\* its own error, runs the release of its finally block, the handle of every
\* other client that is still inside its capture loop keeps the state it had
\* (it is not released).
C8_OnlyThatReaderDropped ==
    [][\A c \in Clients :
         (finally_release(c) /\ cause[c] \in {"closed", "read_failed", "error"})
           => \A d \in Clients \ {c} :
                pc[d] \in LoopPcs
                  => handles'[test_camera[d]].opened
                       = handles[test_camera[d]].opened]_vars

\* C9: at most one capture loop is active and at most one camera handle is
\* open at any time, however many clients are connected.
C9_SingleLoopSingleHandle ==
    /\ Cardinality({c \in Clients : pc[c] \in LoopPcs}) <= 1
    /\ Cardinality(OpenHandles) <= 1

\* C10: when the analyzer raises during an analysis cycle, the capture loop
\* is not left: the client stays inside the loop and nothing is recorded.
C10_AnalyzerErrorContained ==
    [][\A c \in Clients :
         analyze_raises(c)
           => (pc'[c] \in LoopPcs /\ emotion_data' = emotion_data)]_vars

\* C16: a stop() entered while the pipeline is Idle (no start() since the
\* last stop(), so is_running is false) changes nothing in any of its steps:
\* is_running, every camera handle, current_emotion and the history keep
\* their values, and it answers 'stopped'.
C16_StopOnIdleIsNoOp ==
    [][((stop_begin \/ stop_release \/ stop_clear)
          /\ reply \in {"none", "stopped"})
         => /\ is_running' = is_running
            /\ handles' = handles
            /\ current_emotion' = current_emotion
            /\ emotion_data' = emotion_data
            /\ (stop_returns => reply' = "stopped")]_vars

\* C18: whenever a capture loop executes camera.read(), the global camera is
\* not None and stop() is not between its camera.release() and its
\* camera = None on the handle that is read.
C18_ReadOnlyOpenHandle ==
    [][\A c \in Clients :
         camera_read(c)
           => /\ camera # None
              /\ (stop_pc = "clear" => handles[camera].opened)]_vars

\* C19: an event leaves the history only by FIFO eviction: whenever an event
\* of emotion_data is no longer in emotion_data after a step, at least 100
\* events were created after it.
C19_NoEventLost ==
    [][\A i \in 1..Len(emotion_data) :
         (\A j \in 1..Len(emotion_data') : emotion_data'[j] # emotion_data[i])
           => (HistoryCap + clock') - emotion_data[i].timestamp >= HistoryCap]_vars

\* C20: no event of the history carries the label "No face detected"; every
\* stored event carries one of the labels of the emotions list.
C20_NoFaceNeverStored ==
    \A i \in 1..Len(emotion_data) :
       /\ emotion_data[i].emotion # NoFace
       /\ emotion_data[i].emotion \in emotions

\* C20 witness: a single stream has completed an analysis cycle that found no
\* face (current_emotion is "No face detected") and the history still holds
\* its 100 earlier events and no other.
C20_Witness ==
    \E c \in Clients :
       /\ pc[c] = "yield" /\ frame_count[c] = 1
       /\ \A d \in Clients \ {c} : pc[d] = "idle"
       /\ current_emotion = NoFace
       /\ emotion_data = History(HistoryCap)

\* C14 (as stated): a stream of a pipeline that was never started emits no
\* chunk, a stream that finds the pipeline Idle at its check leaves the loop,
\* and every chunk is emitted while is_running is true.
C14_ChunksOnlyWhileRunning ==
    /\ [](reply = "none"
            => \A c \in Clients : frame_count[c] = 0 /\ pc[c] \notin RunningPcs)
    /\ [][\A c \in Clients :
            (pc[c] # "yield" /\ pc'[c] = "yield") => is_running]_vars

\* C14 (amended): a stream of a pipeline that was never started emits no
\* chunk; a stream that finds the pipeline Idle at its check leaves the loop
\* for the finally block without a chunk, and it passes the check only while
\* is_running is true; a chunk is emitted only by an iteration that passed
\* its check; and a stream that is requested while the pipeline is Idle ends
\* unless the pipeline is started.
C14_ChunksOnlyAfterRunningCheck ==
    /\ [](reply = "none"
            => \A c \in Clients : frame_count[c] = 0 /\ pc[c] \notin RunningPcs)
    /\ [][\A c \in Clients :
            (pc[c] = "check" /\ pc'[c] # "check")
              => IF is_running
                 THEN pc'[c] = "read"
                 ELSE /\ pc'[c] = "fin"
                      /\ cause'[c] = "not_running"
                      /\ frame_count'[c] = frame_count[c]]_vars
    /\ [][\A c \in Clients :
            (pc[c] # "yield" /\ pc'[c] = "yield") => pc[c] \in RunningPcs]_vars
    /\ \A c \in Clients :
         (pc[c] = "init" /\ ~is_running) ~> (is_running \/ pc[c] = "done")

\* C14 witness: a stream requested on a pipeline that was never started has
\* ended at its first check with zero chunks.
C14_Witness ==
    \E c \in Clients :
       /\ pc[c] = "done" /\ cause[c] = "not_running"
       /\ frame_count[c] = 0
       /\ reply = "none" /\ ~is_running

\* C15: once is_running is false for good (stop() was called and no start()
\* follows), a capture loop passes no further is_running check, a finished
\* generator stays finished and emits nothing more, and every stream whose
\* generator keeps being scheduled ends.
C15_LoopsExitAfterStop ==
    /\ [][\A c \in Clients :
            (pc[c] = "check" /\ ~is_running /\ pc'[c] # "check")
              => pc'[c] = "fin"]_vars
    /\ [][\A c \in Clients :
            pc[c] = "done"
              => (pc'[c] = "done" /\ frame_count'[c] = frame_count[c])]_vars
    /\ (<>[](~is_running)
          => <>[](\A c \in Clients : pc[c] \in {"idle", "done"} \/ Suspended(c)))

\* C15 witness: stop() has returned, no start() followed, and a stream that
\* had emitted a chunk while the pipeline was running has left its loop at
\* the is_running check and ended.
C15_Witness ==
    \E c \in Clients :
       /\ pc[c] = "done" /\ cause[c] = "not_running"
       /\ frame_count[c] >= 1
       /\ reply = "stopped" /\ ~is_running

\* timestamp of the k-th event created after Init
Nth(k) == HistoryCap + k

\* the last min(n, 100) of n events with label StubLabel, oldest first
LastRecorded(n) ==
    LET m == IF n <= HistoryCap THEN n ELSE HistoryCap
    IN  [i \in 1..m |-> Event(Nth(n - m + i), StubLabel)]

\* C12: in a run of a single capture loop, whenever the loop is not between
\* an append and its trim, the history is exactly the last min(n, 100) of the
\* n events recorded so far, in the order they were recorded.
C12_HistoryIsLastHundred ==
    pc[SeqClient] \notin {"trim", "store"}
      => emotion_data = LastRecorded(clock)

\* C12 witness: after 150 events the history holds events 51..150 in order.
C12_Witness ==
    /\ clock = 150
    /\ pc[SeqClient] = "yield"
    /\ Len(emotion_data) = 100
    /\ \A i \in 1..100 : emotion_data[i].timestamp = Nth(50 + i)

CeilDiv(a, b) == (a + b - 1) \div b

\* C13: with an analyzer that detects the label StubLabel on every call, a
\* single capture loop that has completed n iterations from a fresh start
\* has recorded exactly ceil(n/5) events (all of them in the history while
\* they are at most 100), and current_emotion is StubLabel once n >= 1.
C13_OneEventPerFiveFrames ==
    pc[SeqClient] \notin {"trim", "store"}
      => LET k == CeilDiv(frame_count[SeqClient], AnalyzeEvery)
         IN  /\ clock = k
             /\ (k <= HistoryCap => Len(emotion_data) = k)
             /\ (frame_count[SeqClient] >= 1 => current_emotion = StubLabel)

\* C13 witness: 25 iterations done, 5 events recorded, current_emotion is
\* the label of the stub.
C13_Witness ==
    /\ frame_count[SeqClient] = 25
    /\ pc[SeqClient] = "yield"
    /\ Len(emotion_data) = 5
    /\ current_emotion = StubLabel

\* C11: in every stats() result the reported emotion_counts add up to the
\* reported total_detections (so the percentages add up to 100), also when
\* capture loops append to or trim the history during the call.
C11_CountsSumToTotal ==
    stats_reply = "stats"
      => emotion_counts["Happy"] + emotion_counts["Sad"] = total

\* C17: stats() on an empty history answers 'No data available', and no
\* stats() call divides by a total of zero, whatever the capture loops do to
\* the history during the call.
C17_NoDivisionByZero ==
    /\ [](stats_reply # "zero_division")
    /\ [][stats_test /\ emotion_data = <<>> => stats_reply' = "no_data"]_vars
    /\ [][stats_total => total' > 0]_vars

\* C17 witness: a stats() call answered with statistics although a capture
\* loop rebound the history by its trim while the call was iterating it.
C17_Witness ==
    /\ stats_reply = "stats"
    /\ ~iterated.live
    /\ Len(iterated.items) > HistoryCap
    /\ total = HistoryCap

====
